---- MODULE Spec2Model ----
(***************************************************************************)
(* Model of the AIGC visual studio: the three Gemini service clients       *)
(* (services/geminiService.ts) and the App session orchestrator (App.tsx). *)
(*                                                                         *)
(* Strings are sequences of tokens; a token is one character or an opaque  *)
(* word.  The empty sequence is the empty string; it also stands for the   *)
(* null reference image, which the code tests only by truthiness.          *)
(* Each handler is split at its await: the part up to the await is one     *)
(* action, the part after it (try / catch / finally) is another one that   *)
(* reads the values captured by the closure of the render it started in.   *)
(* The state updates of one such part are committed together: no event     *)
(* handler runs between two set-state calls of the same synchronous run.   *)
(*                                                                         *)
(* Spec is the session: the prompt field, the reference image, the three   *)
(* asynchronous operations and the history.  In it the user leaves the     *)
(* tone, ratio, style and negative-prompt controls alone; they only shape   *)
(* the requests.  SpecService is the two text clients on their own.        *)
(* isSidebarOpen and justRefined only drive the layout and are left out.   *)
(***************************************************************************)
EXTENDS Naturals, Sequences, FiniteSets, TLC

VARIABLES
    prompt,           \* App: useState('')
    negativePrompt,   \* App: useState('')
    aspectRatio,      \* App: useState('1:1')
    selectedStyleId,  \* App: useState('none')
    brandTone,        \* App: useState('default')
    referenceImage,   \* App: useState(null)
    appState,         \* App: useState(AppState.IDLE)
    isTextLoading,    \* App: useState(false)
    errorMessage,     \* App: useState(null)
    history,          \* App: useState([])
    currentImage,     \* App: useState(null)
    keyErrorMessage,  \* errorMessage as captured by the keydown listener's closure
    pendingGen,       \* handleGenerate invocations suspended at await generateImage
    pendingText,      \* handleEnhancePrompt / handleSurpriseMe suspended at their await
    clock,            \* Date.now()
    call              \* the last call of a service client: arguments, outcome, result

vars == <<prompt, negativePrompt, aspectRatio, selectedStyleId, brandTone,
          referenceImage, appState, isTextLoading, errorMessage, history,
          currentImage, keyErrorMessage, pendingGen, pendingText, clock, call>>

-----------------------------------------------------------------------------
(* Bounds *)

MaxGenerations == 2   \* generations started and not failed, per session

-----------------------------------------------------------------------------
(* Strings *)

Whitespace == {" ", "\t"}

RECURSIVE TrimStart(_)
TrimStart(s) ==
    IF s # <<>> /\ Head(s) \in Whitespace THEN TrimStart(Tail(s)) ELSE s

RECURSIVE TrimEnd(_)
TrimEnd(s) ==
    IF s # <<>> /\ s[Len(s)] \in Whitespace
    THEN TrimEnd(SubSeq(s, 1, Len(s) - 1))
    ELSE s

Trim(s) == TrimEnd(TrimStart(s))

\* JavaScript truthiness of a string
Truthy(s) == s # <<>>

Null == <<>>

-----------------------------------------------------------------------------
(* types.ts *)

AppStates == {"IDLE", "GENERATING", "SUCCESS", "ERROR"}

NoImage == [id |-> 0]

NoCall == [fn |-> "none"]

BrandTones == {"default", "minimalist", "luxury", "energetic", "corporate", "playful"}

AspectRatios == {"1:1", "16:9", "9:16", "4:3", "3:4"}

-----------------------------------------------------------------------------
(* services/geminiService.ts: the text clients *)

\* What ai.models.generateContent does for a text request: it throws, or it
\* returns a response whose text is undefined or a string.
Throws == [kind |-> "throw"]
NoText == [kind |-> "response", hasText |-> FALSE]
Text(s) == [kind |-> "response", hasText |-> TRUE, text |-> s]

\* A value returned to the caller, or an exception raised to it.
Return(v) == [raised |-> FALSE, value |-> v]
Raise(e) == [raised |-> TRUE, error |-> e]

ToneInstruction(tone) ==
    CASE tone = "minimalist" -> "Brand Tone: 'Minimalist'."
      [] tone = "luxury" -> "Brand Tone: 'Luxury'."
      [] tone = "energetic" -> "Brand Tone: 'Energetic'."
      [] tone = "corporate" -> "Brand Tone: 'Corporate'."
      [] tone = "playful" -> "Brand Tone: 'Playful'."
      [] OTHER -> "Brand Tone: High-quality professional photography with balanced composition."

RatioKeywords(ratio) ==
    CASE ratio = "16:9" -> "wide shot, cinematic composition, panoramic view, 16:9 aspect ratio"
      [] ratio = "9:16" -> "vertical shot, portrait mode, tall composition, 9:16 aspect ratio"
      [] ratio = "1:1" -> "square composition, symmetrical framing, centered subject"
      [] ratio = "4:3" -> "4:3 standard photography aspect ratio"
      [] ratio = "3:4" -> "3:4 standard portrait aspect ratio"
      [] OTHER -> "balanced composition"

\* The instruction enhancePrompt sends: the fragments that vary with its inputs.
EnhanceInstruction(rawPrompt, tone, ratio) ==
    [toneInstruction |-> ToneInstruction(tone),
     ratioKeywords |-> RatioKeywords(ratio),
     userRequest |-> rawPrompt]

\* as TrimmedTextOr, without the trim
TextOr(outcome, fallback) ==
    IF outcome.hasText /\ Truthy(outcome.text) THEN outcome.text ELSE fallback

\* response.text?.trim() || fallback
TrimmedTextOr(outcome, fallback) ==
    IF outcome.hasText /\ Truthy(Trim(outcome.text))
    THEN Trim(outcome.text)
    ELSE fallback

\* as enhancePrompt, with a catch block that re-throws
enhancePromptRethrowing(rawPrompt, tone, ratio, outcome) ==
    IF outcome.kind = "throw"
    THEN Raise("request failed")
    ELSE Return(TrimmedTextOr(outcome, rawPrompt))

enhancePrompt(rawPrompt, tone, ratio, outcome) ==
    IF outcome.kind = "throw"
    THEN Return(rawPrompt)
    ELSE Return(TrimmedTextOr(outcome, rawPrompt))

FloatingCity ==
    <<"A futuristic city floating in the clouds at golden hour, hyper-realistic, 8k resolution.">>

CyberpunkDetective ==
    <<"A cyberpunk detective standing in neon rain, digital art style, high contrast.">>

RatioHint(ratio) ==
    IF ratio = "9:16" THEN "The subject MUST fit a vertical frame (tall)."
    ELSE IF ratio = "16:9" THEN "The subject MUST fit a wide panoramic frame."
    ELSE ""

\* as suggestCreativePrompt, with one fallback for both failure paths
suggestCreativePromptOneFallback(tone, ratio, outcome) ==
    IF outcome.kind = "throw"
    THEN Return(FloatingCity)
    ELSE Return(TrimmedTextOr(outcome, FloatingCity))

suggestCreativePrompt(tone, ratio, outcome) ==
    IF outcome.kind = "throw"
    THEN Return(CyberpunkDetective)
    ELSE Return(TrimmedTextOr(outcome, FloatingCity))

-----------------------------------------------------------------------------
(* services/geminiService.ts: the image client *)

\* An image response: candidates is undefined or a list; a candidate has a
\* content (or none) whose parts is undefined or a list; a part has an
\* inlineData (or none) whose data is a string, possibly empty.
TextPart == [hasInlineData |-> FALSE]
ImagePart(d) == [hasInlineData |-> TRUE, data |-> d]
Candidate(ps) == [hasContent |-> TRUE, hasParts |-> TRUE, parts |-> ps]
CandidateNoParts == [hasContent |-> TRUE, hasParts |-> FALSE]
CandidateNoContent == [hasContent |-> FALSE]
Response(cs) == [kind |-> "response", hasCandidates |-> TRUE, candidates |-> cs]
ResponseNoCandidates == [kind |-> "response", hasCandidates |-> FALSE]

DataUrlPrefix == "data:image/png;base64,"

NoImageError == "No image data found in response."

RECURSIVE FirstInlineDataOrEmpty(_)
\* as FirstInlineData, returning an empty image instead of throwing
FirstInlineDataOrEmpty(parts) ==
    IF parts = <<>> THEN Return(<<DataUrlPrefix>>)
    ELSE IF Head(parts).hasInlineData /\ Truthy(Head(parts).data)
         THEN Return(<<DataUrlPrefix>> \o Head(parts).data)
         ELSE FirstInlineDataOrEmpty(Tail(parts))

RECURSIVE FirstInlineData(_)
\* for (const part of parts) if (part.inlineData && part.inlineData.data) return ...
FirstInlineData(parts) ==
    IF parts = <<>> THEN Raise(NoImageError)
    ELSE IF Head(parts).hasInlineData /\ Truthy(Head(parts).data)
         THEN Return(<<DataUrlPrefix>> \o Head(parts).data)
         ELSE FirstInlineData(Tail(parts))

\* as ParseImageResponse, reading the parts of the last candidate
ParseImageResponseLastCandidate(resp) ==
    IF resp.kind = "throw" THEN Raise("request failed")
    ELSE IF ~resp.hasCandidates THEN Raise(NoImageError)
    ELSE IF resp.candidates = <<>> \/ ~resp.candidates[Len(resp.candidates)].hasContent
         THEN Raise("TypeError")
    ELSE IF ~resp.candidates[Len(resp.candidates)].hasParts THEN Raise(NoImageError)
    ELSE FirstInlineData(resp.candidates[Len(resp.candidates)].parts)

\* The response handling of generateImage; every exception is re-thrown.
ParseImageResponse(resp) ==
    IF resp.kind = "throw" THEN Raise("request failed")
    ELSE IF ~resp.hasCandidates THEN Raise(NoImageError)
    ELSE IF resp.candidates = <<>> \/ ~resp.candidates[1].hasContent
         THEN Raise("TypeError")
    ELSE IF ~resp.candidates[1].hasParts THEN Raise(NoImageError)
    ELSE FirstInlineData(resp.candidates[1].parts)

WordChars == {"p", "n", "g", "j", "e", "s", "v", "x", "m", "l", "_", "0"}

RECURSIVE WordRunLength(_)
\* the length of the longest prefix of s that \w+ can match
WordRunLength(s) ==
    IF s # <<>> /\ Head(s) \in WordChars THEN 1 + WordRunLength(Tail(s)) ELSE 0

\* referenceImage.replace(/^data:image\/\w+;base64,/, "")
StripDataUrlHeader(s) ==
    IF s # <<>> /\ Head(s) = "data:image/"
    THEN LET n == WordRunLength(Tail(s))
         IN IF n >= 1 /\ Len(s) >= n + 2 /\ s[n + 2] = ";base64,"
            THEN SubSeq(s, n + 3, Len(s))
            ELSE s
    ELSE s

\* fullPrompt and the parts of the request
ImageRequest(config) ==
    LET fullPrompt ==
            config.prompt \o <<".", " ">> \o
            (IF Truthy(config.negativePrompt)
             THEN <<"Exclude: ">> \o config.negativePrompt \o <<".">>
             ELSE <<>>)
        inline ==
            IF Truthy(config.referenceImage)
            THEN <<[inlineData |-> [data |-> StripDataUrlHeader(config.referenceImage),
                                    mimeType |-> "image/png"]]>>
            ELSE <<>>
    IN [parts |-> inline \o <<[text |-> fullPrompt]>>,
        aspectRatio |-> config.aspectRatio]

\* generateImage: the request it sends and, for the answer resp, its outcome
generateImage(config, resp) ==
    [request |-> ImageRequest(config), result |-> ParseImageResponse(resp)]

-----------------------------------------------------------------------------
(* components/StyleSelector.tsx and the prompt composition of handleGenerate *)

STYLES ==
    << [id |-> "none", promptModifier |-> <<"Photorealistic, natural lighting, high fidelity">>],
       [id |-> "cinematic", promptModifier |-> <<"Cinematic lighting, 8k resolution, photorealistic, depth of field, anamorphic lens flare, movie still">>],
       [id |-> "cyberpunk", promptModifier |-> <<"Cyberpunk 2077 style, neon lights, futuristic, high tech low life, vibrant colors, volumetric fog, synthetic">>],
       [id |-> "watercolor", promptModifier |-> <<"Watercolor painting, soft edges, artistic, wet on wet, pastel colors, paper texture, masterpiece">>],
       [id |-> "3d-render", promptModifier |-> <<"3D render, Octane render, unreal engine 5, ray tracing, clean composition, plastic and glass materials, studio lighting">>],
       [id |-> "anime", promptModifier |-> <<"Anime style, Studio Ghibli inspired, cel shaded, vibrant, detailed background, 2D animation">>] >>

StyleIds == {STYLES[i].id : i \in DOMAIN STYLES}

\* as StyleMod, without the exception for the preset "none"
StyleModOfAnyPreset(styleId) ==
    IF \E i \in DOMAIN STYLES : STYLES[i].id = styleId
    THEN STYLES[CHOOSE i \in DOMAIN STYLES : STYLES[i].id = styleId].promptModifier
    ELSE <<>>

\* style && style.id !== 'none' ? style.promptModifier : ''
StyleMod(styleId) ==
    IF \E i \in DOMAIN STYLES : STYLES[i].id = styleId /\ styleId # "none"
    THEN STYLES[CHOOSE i \in DOMAIN STYLES : STYLES[i].id = styleId].promptModifier
    ELSE <<>>

toneModifiers(tone) ==
    CASE tone = "default" -> <<>>
      [] tone = "minimalist" -> <<"minimalist aesthetic, clean lines, uncluttered, negative space, neutral color palette, refined">>
      [] tone = "luxury" -> <<"luxury aesthetic, premium textures, gold and marble accents, dramatic rim lighting, sophisticated, high-end">>
      [] tone = "energetic" -> <<"high energy, dynamic motion, vibrant saturated colors, bold contrast, motion blur, impactful">>
      [] tone = "corporate" -> <<"professional corporate style, trustworthy blue and grey tones, structured composition, bright even lighting">>
      [] tone = "playful" -> <<"playful aesthetic, soft rounded shapes, pastel colors, warm lighting, whimsical, inviting">>

RECURSIVE Join(_)
\* parts.join('. ')
Join(parts) ==
    IF parts = <<>> THEN <<>>
    ELSE IF Len(parts) = 1 THEN parts[1]
    ELSE parts[1] \o <<".", " ">> \o Join(Tail(parts))

\* as FinalPrompt, joining the three fragments without the filter
FinalPromptUnfiltered(p, styleId, tone) ==
    Join(<<StyleMod(styleId), toneModifiers(tone), p>>)

\* [styleMod, toneMod, prompt].filter(p => p.trim() !== '').join('. ')
FinalPrompt(p, styleId, tone) ==
    Join(SelectSeq(<<StyleMod(styleId), toneModifiers(tone), p>>,
                   LAMBDA f : Trim(f) # <<>>))

BuildConfig(p, neg, ratio, styleId, tone, ref) ==
    [prompt |-> FinalPrompt(p, styleId, tone),
     negativePrompt |-> neg,
     aspectRatio |-> ratio,
     styleId |-> styleId,
     referenceImage |-> ref]

-----------------------------------------------------------------------------
(* App.tsx: inputs of the session *)

UserPrompts == {<<>>, <<" ">>, <<"cat">>}
UserNegativePrompts == {<<>>, <<"blurry">>}
UserTones == {"default", "luxury"}
UserRatios == {"1:1", "16:9"}
UserStyles == {"none", "cinematic"}
UserFiles == {<<"data:image/", "p", "n", "g", ";base64,", "iVBOR">>}

\* the outcomes of Math.random() in handleSurpriseMe
RandomStyles == {STYLES[2].id}

TextOutcomes == {Throws, NoText, Text(<<" ", "dog", " ">>)}

ImageResponses ==
    {Throws,
     ResponseNoCandidates,
     Response(<<>>),
     Response(<<Candidate(<<TextPart>>)>>),
     Response(<<Candidate(<<TextPart, ImagePart(<<"AAAA">>)>>)>>)}

GenerationFailed == <<"Image generation failed. Please check your prompt or try again.">>
EnhanceFailed == <<"Failed to enhance prompt. Please try again.">>
SuggestFailed == <<"Could not generate a suggestion.">>

-----------------------------------------------------------------------------
(* App.tsx: state *)

Init ==
    /\ prompt = <<>>
    /\ negativePrompt = <<>>
    /\ aspectRatio = "1:1"
    /\ selectedStyleId = "none"
    /\ brandTone = "default"
    /\ referenceImage = Null
    /\ appState = "IDLE"
    /\ isTextLoading = FALSE
    /\ errorMessage = Null
    /\ history = <<>>
    /\ currentImage = NoImage
    /\ keyErrorMessage = Null
    /\ pendingGen = <<>>
    /\ pendingText = <<>>
    /\ clock = 0
    /\ call = NoCall

\* useEffect(..., [prompt, referenceImage, selectedStyleId, aspectRatio,
\* negativePrompt, brandTone]): the keydown listener is replaced, with the
\* handleGenerate of the new render, only when one of these changes.  Its
\* closure sees their current values but the errorMessage of that render.
keyDeps == <<prompt, referenceImage, selectedStyleId, aspectRatio, negativePrompt, brandTone>>

KeyListener ==
    keyErrorMessage' = IF keyDeps' # keyDeps THEN errorMessage' ELSE keyErrorMessage

Remove(seq, i) == SubSeq(seq, 1, i - 1) \o SubSeq(seq, i + 1, Len(seq))

-----------------------------------------------------------------------------
(* App.tsx: the form controls *)

\* textarea onChange
TypePrompt(p) ==
    /\ prompt' = p
    /\ UNCHANGED <<negativePrompt, aspectRatio, selectedStyleId, brandTone,
                   referenceImage, appState, isTextLoading, errorMessage, history,
                   currentImage, pendingGen, pendingText, clock, call>>
    /\ KeyListener

TypeNegativePrompt(n) ==
    /\ negativePrompt' = n
    /\ UNCHANGED <<prompt, aspectRatio, selectedStyleId, brandTone,
                   referenceImage, appState, isTextLoading, errorMessage, history,
                   currentImage, pendingGen, pendingText, clock, call>>
    /\ KeyListener

SelectAspectRatio(r) ==
    /\ aspectRatio' = r
    /\ UNCHANGED <<prompt, negativePrompt, selectedStyleId, brandTone,
                   referenceImage, appState, isTextLoading, errorMessage, history,
                   currentImage, pendingGen, pendingText, clock, call>>
    /\ KeyListener

SelectBrandTone(t) ==
    /\ brandTone' = t
    /\ UNCHANGED <<prompt, negativePrompt, aspectRatio, selectedStyleId,
                   referenceImage, appState, isTextLoading, errorMessage, history,
                   currentImage, pendingGen, pendingText, clock, call>>
    /\ KeyListener

SelectStyle(id) ==
    /\ selectedStyleId' = id
    /\ UNCHANGED <<prompt, negativePrompt, aspectRatio, brandTone,
                   referenceImage, appState, isTextLoading, errorMessage, history,
                   currentImage, pendingGen, pendingText, clock, call>>
    /\ KeyListener

\* handleReferenceUpload, at reader.onloadend
UploadReference(f) ==
    /\ referenceImage' = f
    /\ UNCHANGED <<prompt, negativePrompt, aspectRatio, selectedStyleId, brandTone,
                   appState, isTextLoading, errorMessage, history,
                   currentImage, pendingGen, pendingText, clock, call>>
    /\ KeyListener

\* the remove button, rendered over the thumbnail of the reference image
RemoveReference ==
    /\ Truthy(referenceImage)
    /\ referenceImage' = Null
    /\ UNCHANGED <<prompt, negativePrompt, aspectRatio, selectedStyleId, brandTone,
                   appState, isTextLoading, errorMessage, history,
                   currentImage, pendingGen, pendingText, clock, call>>
    /\ KeyListener

\* the close button of the error banner
DismissError ==
    /\ Truthy(errorMessage)
    /\ errorMessage' = Null
    /\ UNCHANGED <<prompt, negativePrompt, aspectRatio, selectedStyleId, brandTone,
                   referenceImage, appState, isTextLoading, history,
                   currentImage, keyErrorMessage, pendingGen, pendingText, clock, call>>

\* as SelectHistoryItem, moving the selected entry to the front of the history
SelectHistoryItemMovingToFront(i) ==
    /\ i \in DOMAIN history
    /\ currentImage' = history[i]
    /\ history' = <<history[i]>> \o Remove(history, i)
    /\ UNCHANGED <<prompt, negativePrompt, aspectRatio, selectedStyleId, brandTone,
                   referenceImage, appState, isTextLoading, errorMessage,
                   keyErrorMessage, pendingGen, pendingText, clock, call>>

\* a thumbnail of the history footer
SelectHistoryItem(i) ==
    /\ i \in DOMAIN history
    /\ currentImage' = history[i]
    /\ UNCHANGED <<prompt, negativePrompt, aspectRatio, selectedStyleId, brandTone,
                   referenceImage, appState, isTextLoading, errorMessage, history,
                   keyErrorMessage, pendingGen, pendingText, clock, call>>

-----------------------------------------------------------------------------
(* App.tsx: handleGenerate *)

\* as GenerateGuard, without the trim
GenerateGuardUntrimmed(p, ref) == Truthy(p) \/ Truthy(ref)

\* the negation of: if (!prompt.trim() && !referenceImage) return;
GenerateGuard(p, ref) == Truthy(Trim(p)) \/ Truthy(ref)

\* disabled={appState === AppState.GENERATING || (!prompt && !referenceImage)}
GenerateButtonEnabled ==
    ~(appState = "GENERATING" \/ (~Truthy(prompt) /\ ~Truthy(referenceImage)))

\* handleKeyDown, for Ctrl/Cmd+Enter: if (prompt || referenceImage)
KeyShortcutGuard == Truthy(prompt) \/ Truthy(referenceImage)

\* as handleGenerate, keeping the composed prompt for the history entry
handleGenerateKeepingFinalPrompt(closureError) ==
    IF ~GenerateGuard(prompt, referenceImage)
    THEN UNCHANGED vars
    ELSE /\ Len(pendingGen) + Len(history) < MaxGenerations
         /\ appState' = "GENERATING"
         /\ errorMessage' = Null
         /\ pendingGen' = Append(pendingGen,
                [prompt |-> FinalPrompt(prompt, selectedStyleId, brandTone),
                 aspectRatio |-> aspectRatio,
                 errorMessage |-> closureError])
         /\ UNCHANGED <<prompt, negativePrompt, aspectRatio, selectedStyleId,
                        brandTone, referenceImage, isTextLoading, history,
                        currentImage, keyErrorMessage, pendingText, clock, call>>

\* handleGenerate up to its await; closureError is the errorMessage of the
\* render whose handleGenerate is running.  The suspended invocation keeps
\* the closure values it reads when it resumes; the request it has sent,
\* ImageRequest(BuildConfig(...)), is with the service, whose answer does not
\* depend on it.
handleGenerate(closureError) ==
    IF ~GenerateGuard(prompt, referenceImage)
    THEN UNCHANGED vars
    ELSE /\ Len(pendingGen) + Len(history) < MaxGenerations
         /\ appState' = "GENERATING"
         /\ errorMessage' = Null
         /\ pendingGen' = Append(pendingGen,
                [prompt |-> prompt,
                 aspectRatio |-> aspectRatio,
                 errorMessage |-> closureError])
         /\ UNCHANGED <<prompt, negativePrompt, aspectRatio, selectedStyleId,
                        brandTone, referenceImage, isTextLoading, history,
                        currentImage, keyErrorMessage, pendingText, clock, call>>

ClickGenerate ==
    /\ GenerateButtonEnabled
    /\ handleGenerate(errorMessage)

KeyDownGenerate ==
    IF KeyShortcutGuard THEN handleGenerate(keyErrorMessage) ELSE UNCHANGED vars

\* as PrependHistory, adding at the back
AppendHistory(prev, newImage) == prev \o <<newImage>>

\* setHistory(prev => [newImage, ...prev])
PrependHistory(prev, newImage) == <<newImage>> \o prev

\* finally { if (errorMessage) setAppState(ERROR) else setAppState(IDLE) }:
\* the last setAppState of the batch wins over the one of try or catch.
FinallyAppState(afterTryCatch, closureError) ==
    IF Truthy(closureError) THEN "ERROR" ELSE "IDLE"

\* as GenerateResolve, clearing the canvas when the generation fails
GenerateResolveClearingCanvas(i, resp, now) ==
    /\ i \in DOMAIN pendingGen
    /\ LET g == pendingGen[i]
           result == ParseImageResponse(resp)
       IN IF ~result.raised
          THEN LET newImage == [id |-> Len(history) + 1,
                                data |-> result.value,
                                prompt |-> g.prompt,
                                timestamp |-> now,
                                aspectRatio |-> g.aspectRatio]
               IN /\ history' = PrependHistory(history, newImage)
                  /\ currentImage' = newImage
                  /\ appState' = FinallyAppState("SUCCESS", g.errorMessage)
                  /\ clock' = now
                  /\ UNCHANGED errorMessage
          ELSE /\ appState' = FinallyAppState("ERROR", g.errorMessage)
               /\ errorMessage' = GenerationFailed
               /\ currentImage' = NoImage
               /\ UNCHANGED <<history, clock>>
    /\ pendingGen' = Remove(pendingGen, i)
    /\ UNCHANGED <<prompt, negativePrompt, aspectRatio, selectedStyleId, brandTone,
                   referenceImage, isTextLoading, keyErrorMessage, pendingText, call>>

\* handleGenerate from its await on, for the i-th suspended invocation.
GenerateResolve(i, resp, now) ==
    /\ i \in DOMAIN pendingGen
    /\ LET g == pendingGen[i]
           result == ParseImageResponse(resp)
       IN IF ~result.raised
          THEN LET newImage == [id |-> Len(history) + 1,
                                data |-> result.value,
                                prompt |-> g.prompt,
                                timestamp |-> now,
                                aspectRatio |-> g.aspectRatio]
               IN /\ history' = PrependHistory(history, newImage)
                  /\ currentImage' = newImage
                  /\ appState' = FinallyAppState("SUCCESS", g.errorMessage)
                  /\ clock' = now
                  /\ UNCHANGED errorMessage
          ELSE /\ appState' = FinallyAppState("ERROR", g.errorMessage)
               /\ errorMessage' = GenerationFailed
               /\ UNCHANGED <<history, currentImage, clock>>
    /\ pendingGen' = Remove(pendingGen, i)
    /\ UNCHANGED <<prompt, negativePrompt, aspectRatio, selectedStyleId, brandTone,
                   referenceImage, isTextLoading, keyErrorMessage, pendingText, call>>

-----------------------------------------------------------------------------
(* App.tsx: handleEnhancePrompt and handleSurpriseMe *)

\* as RefineButtonEnabled, not disabled while a text operation is loading
RefineButtonEnabledWhileLoading ==
    ~(appState = "GENERATING" \/ ~Truthy(prompt))

\* disabled={isTextLoading || appState === AppState.GENERATING || !prompt}
RefineButtonEnabled ==
    ~(isTextLoading \/ appState = "GENERATING" \/ ~Truthy(prompt))

\* disabled={isTextLoading || appState === AppState.GENERATING}
SurpriseButtonEnabled == ~(isTextLoading \/ appState = "GENERATING")

\* handleEnhancePrompt up to its await
handleEnhancePrompt ==
    IF ~Truthy(Trim(prompt))
    THEN UNCHANGED vars
    ELSE /\ isTextLoading' = TRUE
         /\ errorMessage' = Null
         /\ pendingText' = Append(pendingText,
                [op |-> "enhance", prompt |-> prompt,
                 tone |-> brandTone, ratio |-> aspectRatio])
         /\ UNCHANGED <<prompt, negativePrompt, aspectRatio, selectedStyleId,
                        brandTone, referenceImage, appState, history,
                        currentImage, keyErrorMessage, pendingGen, clock, call>>

ClickRefine ==
    /\ RefineButtonEnabled
    /\ handleEnhancePrompt

\* handleEnhancePrompt from its await on
EnhanceResolve(i, outcome) ==
    /\ i \in DOMAIN pendingText
    /\ pendingText[i].op = "enhance"
    /\ LET t == pendingText[i]
           result == enhancePrompt(t.prompt, t.tone, t.ratio, outcome)
       IN IF ~result.raised
          THEN /\ prompt' = result.value
               /\ UNCHANGED errorMessage
          ELSE /\ errorMessage' = EnhanceFailed
               /\ UNCHANGED prompt
    /\ isTextLoading' = FALSE
    /\ pendingText' = Remove(pendingText, i)
    /\ UNCHANGED <<negativePrompt, aspectRatio, selectedStyleId, brandTone,
                   referenceImage, appState, history, currentImage, pendingGen,
                   clock, call>>
    /\ KeyListener

\* as handleSurpriseMe, showing the suggestion as a generation in progress
handleSurpriseMeAsGenerating ==
    /\ isTextLoading' = TRUE
    /\ appState' = "GENERATING"
    /\ errorMessage' = Null
    /\ pendingText' = Append(pendingText,
           [op |-> "suggest", tone |-> brandTone, ratio |-> aspectRatio])
    /\ UNCHANGED <<prompt, negativePrompt, aspectRatio, selectedStyleId,
                   brandTone, referenceImage, history,
                   currentImage, keyErrorMessage, pendingGen, clock, call>>

\* handleSurpriseMe up to its await
handleSurpriseMe ==
    /\ isTextLoading' = TRUE
    /\ errorMessage' = Null
    /\ pendingText' = Append(pendingText,
           [op |-> "suggest", tone |-> brandTone, ratio |-> aspectRatio])
    /\ UNCHANGED <<prompt, negativePrompt, aspectRatio, selectedStyleId,
                   brandTone, referenceImage, appState, history,
                   currentImage, keyErrorMessage, pendingGen, clock, call>>

ClickSurpriseMe ==
    /\ SurpriseButtonEnabled
    /\ handleSurpriseMe

\* handleSurpriseMe from its await on; randomStyle is
\* STYLES[Math.floor(Math.random() * STYLES.length)].id
SuggestResolve(i, outcome, randomStyle) ==
    /\ i \in DOMAIN pendingText
    /\ pendingText[i].op = "suggest"
    /\ LET t == pendingText[i]
           result == suggestCreativePrompt(t.tone, t.ratio, outcome)
       IN IF ~result.raised
          THEN /\ prompt' = result.value
               /\ selectedStyleId' =
                      IF t.tone = "default" THEN randomStyle ELSE selectedStyleId
               /\ UNCHANGED errorMessage
          ELSE /\ errorMessage' = SuggestFailed
               /\ UNCHANGED <<prompt, selectedStyleId>>
    /\ isTextLoading' = FALSE
    /\ pendingText' = Remove(pendingText, i)
    /\ UNCHANGED <<negativePrompt, aspectRatio, brandTone,
                   referenceImage, appState, history, currentImage, pendingGen,
                   clock, call>>
    /\ KeyListener

-----------------------------------------------------------------------------
(* The session *)

Next ==
    \/ \E p \in UserPrompts : TypePrompt(p)
    \/ \E f \in UserFiles : UploadReference(f)
    \/ RemoveReference
    \/ DismissError
    \/ \E i \in DOMAIN history : SelectHistoryItem(i)
    \/ ClickGenerate
    \/ KeyDownGenerate
    \/ \E i \in DOMAIN pendingGen, resp \in ImageResponses :
           GenerateResolve(i, resp, clock + 1)
    \/ ClickRefine
    \/ \E i \in DOMAIN pendingText, outcome \in TextOutcomes : EnhanceResolve(i, outcome)
    \/ ClickSurpriseMe
    \/ \E i \in DOMAIN pendingText, outcome \in TextOutcomes, id \in RandomStyles :
           SuggestResolve(i, outcome, id)

Spec == Init /\ [][Next]_vars

\* Every external call eventually returns or fails: a suspended handler at
\* any position of the calls in flight eventually resumes.
CallsReturn ==
    /\ \A i \in 1..MaxGenerations :
           WF_vars(\E resp \in ImageResponses : GenerateResolve(i, resp, clock + 1))
    /\ WF_vars(\E i \in DOMAIN pendingText, outcome \in TextOutcomes :
                  EnhanceResolve(i, outcome))
    /\ WF_vars(\E i \in DOMAIN pendingText, outcome \in TextOutcomes,
                  id \in RandomStyles : SuggestResolve(i, outcome, id))

SpecFair == Spec /\ CallsReturn

-----------------------------------------------------------------------------
(* The service clients on their own: every tone and ratio, listed or not,   *)
(* and every kind of answer of the text model.                             *)

ServicePrompts == {<<>>, <<"cat">>, <<" ", "cat">>}
ServiceTones == BrandTones \cup {"vintage"}
ServiceRatios == AspectRatios \cup {"2:1"}

ServiceTextOutcomes ==
    {Throws, NoText, Text(<<>>), Text(<<" ">>), Text(<<"\t", " ">>),
     Text(<<"dog">>), Text(<<" ", "dog", "\t">>), Text(<<"big", " ", "dog">>)}

sessionVars ==
    <<prompt, negativePrompt, aspectRatio, selectedStyleId, brandTone,
      referenceImage, appState, isTextLoading, errorMessage, history,
      currentImage, keyErrorMessage, pendingGen, pendingText, clock>>

CallEnhancePrompt(rawPrompt, tone, ratio, outcome) ==
    /\ call' = [fn |-> "enhancePrompt", rawPrompt |-> rawPrompt, tone |-> tone,
                ratio |-> ratio, outcome |-> outcome,
                instruction |-> EnhanceInstruction(rawPrompt, tone, ratio),
                result |-> enhancePrompt(rawPrompt, tone, ratio, outcome)]
    /\ UNCHANGED sessionVars

CallSuggestCreativePrompt(tone, ratio, outcome) ==
    /\ call' = [fn |-> "suggestCreativePrompt", tone |-> tone, ratio |-> ratio,
                outcome |-> outcome,
                result |-> suggestCreativePrompt(tone, ratio, outcome)]
    /\ UNCHANGED sessionVars

NextService ==
    \/ \E p \in ServicePrompts, t \in ServiceTones, r \in ServiceRatios,
          o \in ServiceTextOutcomes : CallEnhancePrompt(p, t, r, o)
    \/ \E t \in ServiceTones, r \in ServiceRatios, o \in ServiceTextOutcomes :
          CallSuggestCreativePrompt(t, r, o)

SpecService == Init /\ [][NextService]_vars

-----------------------------------------------------------------------------
(* The image client on its own: every shape of configuration and of answer. *)

ServiceFiles ==
    {<<>>,
     <<"data:image/", "p", "n", "g", ";base64,", "iVBOR">>,
     <<"data:image/", "j", "p", "e", "g", ";base64,", "/9j/4">>,
     <<"data:image/", "s", "v", "g", "+", "x", "m", "l", ";base64,", "PHN2Z">>,
     <<"iVBOR">>}

ServiceConfigs ==
    {[prompt |-> p, negativePrompt |-> n, aspectRatio |-> r, styleId |-> "none",
      referenceImage |-> f] :
        p \in {<<>>, <<"cat">>}, n \in {<<>>, <<"blur">>},
        r \in {"1:1", "16:9"}, f \in ServiceFiles}

ServiceImageResponses ==
    {Throws,
     ResponseNoCandidates,
     Response(<<>>),
     Response(<<CandidateNoContent>>),
     Response(<<CandidateNoParts>>),
     Response(<<Candidate(<<>>)>>),
     Response(<<Candidate(<<TextPart>>)>>),
     Response(<<Candidate(<<TextPart, ImagePart(<<>>)>>)>>),
     Response(<<Candidate(<<ImagePart(<<"AAAA">>)>>)>>),
     Response(<<Candidate(<<TextPart, ImagePart(<<>>), ImagePart(<<"AAAA">>),
                            ImagePart(<<"BBBB">>)>>)>>),
     Response(<<Candidate(<<TextPart>>), Candidate(<<ImagePart(<<"CCCC">>)>>)>>),
     Response(<<Candidate(<<ImagePart(<<"AAAA">>)>>),
                Candidate(<<ImagePart(<<"CCCC">>)>>)>>)}

CallGenerateImage(config, resp) ==
    /\ call' = [fn |-> "generateImage", config |-> config, resp |-> resp,
                request |-> generateImage(config, resp).request,
                result |-> generateImage(config, resp).result]
    /\ UNCHANGED sessionVars

NextImage ==
    \E config \in ServiceConfigs, resp \in ServiceImageResponses :
        CallGenerateImage(config, resp)

SpecImage == Init /\ [][NextImage]_vars

-----------------------------------------------------------------------------
(* The request construction of handleGenerate on its own: every style of    *)
(* the catalog and one outside it, every tone, blank and padded prompts.    *)

ComposePrompts == {<<>>, <<" ">>, <<"cat">>, <<" ", "cat">>}
ComposeStyles == StyleIds \cup {"sketch"}

ComposeRequest(p, neg, ratio, styleId, tone, ref) ==
    /\ GenerateGuard(p, ref)
    /\ call' = [fn |-> "handleGenerate", prompt |-> p, selectedStyleId |-> styleId,
                brandTone |-> tone, aspectRatio |-> ratio, referenceImage |-> ref,
                config |-> BuildConfig(p, neg, ratio, styleId, tone, ref)]
    /\ UNCHANGED sessionVars

NextCompose ==
    \E p \in ComposePrompts, r \in UserRatios, id \in ComposeStyles,
       t \in BrandTones, f \in {<<>>} \cup UserFiles :
        ComposeRequest(p, <<>>, r, id, t, f)

SpecCompose == Init /\ [][NextCompose]_vars

-----------------------------------------------------------------------------
(* The session of a user who types a prompt, has it refined, changes the    *)
(* aspect ratio and generates; the text model does as it is instructed.     *)

\* a text built as the instruction demands: a rewritten subject followed by
\* the composition keywords the instruction makes mandatory
FollowsInstruction(instruction) ==
    Text(<<"dog", ", ", instruction.ratioKeywords>>)

NextRatio ==
    \/ TypePrompt(<<"cat">>)
    \/ \E r \in UserRatios : SelectAspectRatio(r)
    \/ ClickRefine
    \/ \E i \in DOMAIN pendingText :
           \E outcome \in {Throws,
                            FollowsInstruction(EnhanceInstruction(
                                pendingText[i].prompt, pendingText[i].tone,
                                pendingText[i].ratio))} :
               EnhanceResolve(i, outcome)
    \/ ClickGenerate
    \/ \E i \in DOMAIN pendingGen, resp \in ImageResponses :
           GenerateResolve(i, resp, clock + 1)

SpecRatio == Init /\ [][NextRatio]_vars

-----------------------------------------------------------------------------
(* The session of a user who edits the prompt, the aspect ratio and the     *)
(* style at any time, also while generations are in flight.                 *)

EditPrompts == {<<"cat">>, <<"dog">>}

NextEdit ==
    \/ \E p \in EditPrompts : TypePrompt(p)
    \/ \E r \in UserRatios : SelectAspectRatio(r)
    \/ \E id \in UserStyles : SelectStyle(id)
    \/ ClickGenerate
    \/ KeyDownGenerate
    \/ \E i \in DOMAIN pendingGen, resp \in ImageResponses :
           GenerateResolve(i, resp, clock + 1)

SpecEdit == Init /\ [][NextEdit]_vars

-----------------------------------------------------------------------------
(* Properties *)

\* a string with no character other than whitespace
Blank(str) == \A k \in DOMAIN str : str[k] \in Whitespace

\* an answer of the image model that carries an image: a first candidate
\* one of whose parts has a non-empty inline payload
CarriesImage(resp) ==
    /\ resp.kind = "response"
    /\ resp.hasCandidates
    /\ resp.candidates # <<>>
    /\ resp.candidates[1].hasContent
    /\ resp.candidates[1].hasParts
    /\ \E k \in DOMAIN resp.candidates[1].parts :
           /\ resp.candidates[1].parts[k].hasInlineData
           /\ resp.candidates[1].parts[k].data # <<>>

\* a step in which a suspended handleGenerate resumes with an image (it is
\* then that Date.now() is read)
GenerateSucceeds ==
    /\ Len(pendingGen') < Len(pendingGen)
    /\ clock' # clock
    /\ \E i \in DOMAIN pendingGen, resp \in ImageResponses :
           CarriesImage(resp) /\ GenerateResolve(i, resp, clock + 1)

\* a step in which a suspended handleGenerate resumes with a failure
GenerateFails ==
    /\ Len(pendingGen') < Len(pendingGen)
    /\ \E i \in DOMAIN pendingGen, resp \in ImageResponses :
           ~CarriesImage(resp) /\ GenerateResolve(i, resp, clock + 1)

\* a step in which handleGenerate is called, by the button or the shortcut
GenerateRequested == ClickGenerate \/ KeyDownGenerate

\* a step in which a suspended text operation resumes
TextOperationResolves ==
    /\ Len(pendingText') < Len(pendingText)
    /\ \E i \in DOMAIN pendingText, outcome \in TextOutcomes :
           \/ EnhanceResolve(i, outcome)
           \/ \E id \in RandomStyles : SuggestResolve(i, outcome, id)

\* C1: a generation that succeeds puts exactly one new entry in front of the
\* history, which keeps its entries and their order, and makes that entry
\* the current image, whatever completed since the generation was requested.
C1_SuccessPrepends ==
    [][GenerateSucceeds =>
          /\ Len(history') = Len(history) + 1
          /\ Tail(history') = history
          /\ \A k \in DOMAIN history : history[k].id # Head(history').id
          /\ currentImage' = Head(history')]_vars

\* two generations were in flight together and both succeeded, the second
\* entry being shown
C1_Witness ==
    /\ Len(history) = 2
    /\ currentImage = history[1]
    /\ history[1].id = 2
    /\ history[2].id = 1

\* C2: a generation that fails leaves the history and the current image as
\* they were and sets the generation-failure message.
C2_FailureKeepsHistory ==
    [][GenerateFails =>
          /\ history' = history
          /\ currentImage' = currentImage
          /\ errorMessage' =
                <<"Image generation failed. Please check your prompt or try again.">>]_vars

\* a generation failed after another had succeeded
C2_Witness ==
    /\ errorMessage = GenerationFailed
    /\ history # <<>>
    /\ currentImage = history[1]
    /\ pendingGen = <<>>

\* C3: when a generation fails, the session is in the error state once the
\* handler has finished.
C3_FailureEndsInError ==
    [][GenerateFails => appState' = "ERROR"]_vars

\* C4: when a generation succeeds, the session is in the success state once
\* the handler has finished.
C4_SuccessEndsInSuccess ==
    [][GenerateSucceeds => appState' = "SUCCESS"]_vars

\* C5: a generate request with a blank prompt and no reference image starts
\* no call and changes nothing of the session; every call that is started
\* has a prompt that is not blank or a reference image.
C5_InputGuard ==
    [][/\ (Blank(prompt) /\ referenceImage = <<>> /\ GenerateRequested) =>
              UNCHANGED <<appState, errorMessage, history, currentImage, pendingGen>>
       /\ Len(pendingGen') > Len(pendingGen) =>
              ~Blank(prompt) \/ referenceImage # <<>>]_vars

\* a call in flight that was let through for its reference image alone
C5_Witness ==
    /\ pendingGen # <<>>
    /\ pendingGen[1].prompt = <<" ">>
    /\ referenceImage # <<>>

\* C6: a text operation and an image generation are never in flight together.
C6_MutualExclusion ==
    /\ ~(pendingText # <<>> /\ pendingGen # <<>>)
    /\ ~(isTextLoading /\ appState = "GENERATING")

\* C7: while a generation is in flight the session is in the generating
\* state, and at most one generation is in flight.
C7_NoReentrantGeneration ==
    /\ Len(pendingGen) <= 1
    /\ pendingGen # <<>> => appState = "GENERATING"

\* C8: the error message is only ever the one of a failed generation, and a
\* text operation, whatever the answer of the text model, completes without
\* setting it and clears the loading flag.
C8_OnlyGenerationFails ==
    /\ [](errorMessage \in
            {<<>>, <<"Image generation failed. Please check your prompt or try again.">>})
    /\ [][TextOperationResolves =>
            /\ errorMessage' = errorMessage
            /\ isTextLoading' = FALSE]_vars

\* the suggestion call threw while the banner of a failed generation was
\* cleared: the fallback prompt is in the field and no error is shown
C8_Witness ==
    /\ prompt = CyberpunkDetective
    /\ errorMessage = <<>>
    /\ ~isTextLoading
    /\ appState = "ERROR"

\* no usable text: the call threw, or its text is undefined, empty or blank
NoUsableText(outcome) ==
    \/ outcome.kind = "throw"
    \/ ~outcome.hasText
    \/ Blank(outcome.text)

\* C9: enhancePrompt returns rawPrompt as it was given when the call throws
\* or answers with no text, an empty text or a blank text, and the trimmed
\* text otherwise, for every tone and ratio.
C9_EnhanceFallback ==
    call.fn = "enhancePrompt" =>
        call.result =
            [raised |-> FALSE,
             value |-> IF NoUsableText(call.outcome)
                       THEN call.rawPrompt
                       ELSE Trim(call.outcome.text)]

\* a blank answer for a prompt that itself starts with a space
C9_Witness ==
    /\ call.fn = "enhancePrompt"
    /\ call.outcome = Text(<<"\t", " ">>)
    /\ call.rawPrompt = <<" ", "cat">>
    /\ call.tone = "vintage"
    /\ call.result.value = <<" ", "cat">>

\* C10, as stated: the trimmed text for every non-empty answer, the floating
\* city for an absent or empty one, the cyberpunk detective when the call
\* throws, and never an empty result.
C10_AsStated ==
    call.fn = "suggestCreativePrompt" =>
        /\ ~call.result.raised
        /\ call.result.value # <<>>
        /\ call.outcome.kind = "throw" => call.result.value = CyberpunkDetective
        /\ call.outcome.kind = "response" =>
              IF call.outcome.hasText /\ call.outcome.text # <<>>
              THEN call.result.value = Trim(call.outcome.text)
              ELSE call.result.value = FloatingCity

\* C10: the trimmed text for every answer that is not blank, the floating
\* city for an absent, empty or blank one, the cyberpunk detective when the
\* call throws, and never an empty result, for every tone and ratio.
C10_SuggestFallbacks ==
    call.fn = "suggestCreativePrompt" =>
        /\ ~call.result.raised
        /\ call.result.value # <<>>
        /\ call.outcome.kind = "throw" => call.result.value = CyberpunkDetective
        /\ call.outcome.kind = "response" =>
              IF call.outcome.hasText /\ ~Blank(call.outcome.text)
              THEN call.result.value = Trim(call.outcome.text)
              ELSE call.result.value = FloatingCity

\* a blank answer, replaced by the floating city
C10_Witness ==
    /\ call.fn = "suggestCreativePrompt"
    /\ call.outcome = Text(<<" ">>)
    /\ call.result.value = FloatingCity

-----------------------------------------------------------------------------
\* C11, as stated: generateImage fails with the error "No image data found in
\* response." for every answer that carries no image: no candidates field, an
\* empty candidates list, a first candidate without parts, or a first
\* candidate none of whose parts has a non-empty inline payload.
C11_NoImageError ==
    (call.fn = "generateImage" /\ call.resp.kind = "response"
        /\ ~CarriesImage(call.resp))
    => call.result = Raise(NoImageError)

\* C11: an answer with an empty candidates list is an answer without an image
\* for which generateImage does not raise the no-image error.
C11_Witness ==
    /\ call.fn = "generateImage"
    /\ call.resp = Response(<<>>)
    /\ call.result # Raise(NoImageError)

-----------------------------------------------------------------------------
\* C12: generateImage scans the parts of the first candidate in order and
\* returns the payload of the first part that has a non-empty inline payload,
\* prefixed with "data:image/png;base64,", whatever the position of that part;
\* the parts of later candidates are never used.
C12_FirstInlinePart ==
    (/\ call.fn = "generateImage"
     /\ call.resp.kind = "response"
     /\ call.resp.hasCandidates
     /\ call.resp.candidates # <<>>
     /\ call.resp.candidates[1].hasContent
     /\ call.resp.candidates[1].hasParts)
    => LET ps == call.resp.candidates[1].parts
           HasData(k) == ps[k].hasInlineData /\ ps[k].data # <<>>
       IN /\ \A k \in DOMAIN ps :
                (HasData(k) /\ \A j \in 1..(k - 1) : ~HasData(j))
                => call.result = Return(<<"data:image/png;base64,">> \o ps[k].data)
          /\ (\A k \in DOMAIN ps : ~HasData(k))
                => call.result = Raise(NoImageError)

\* the image is in the third part of the first candidate, after a text part
\* and a part with an empty payload, and a later part has an image as well
C12_Witness ==
    /\ call.fn = "generateImage"
    /\ call.resp = Response(<<Candidate(<<TextPart, ImagePart(<<>>),
                                          ImagePart(<<"AAAA">>),
                                          ImagePart(<<"BBBB">>)>>)>>)
    /\ call.result = Return(<<"data:image/png;base64,", "AAAA">>)

\* the first candidate has no image and the second one has: nothing is returned
C12_WitnessLaterCandidate ==
    /\ call.fn = "generateImage"
    /\ call.resp = Response(<<Candidate(<<TextPart>>),
                              Candidate(<<ImagePart(<<"CCCC">>)>>)>>)
    /\ ~CarriesImage(call.resp)
    /\ call.result = Raise(NoImageError)

-----------------------------------------------------------------------------
\* a and b joined by ". ", an absent (empty) side contributing nothing
Sep(a, b) == IF a = <<>> \/ b = <<>> THEN a \o b ELSE a \o <<".", " ">> \o b

\* the style fragment: the modifier of the catalog entry, for an id of the
\* catalog other than "none"
StyleFragment(id) ==
    IF id \in StyleIds \ {"none"}
    THEN (CHOOSE st \in {STYLES[i] : i \in DOMAIN STYLES} : st.id = id).promptModifier
    ELSE <<>>

\* the tone fragment: the keywords of the tone, for a tone other than default
ToneFragment(tone) == IF tone = "default" THEN <<>> ELSE toneModifiers(tone)

NonBlank(f) == IF Blank(f) THEN <<>> ELSE f

\* C13, as stated: the prompt sent to generateImage is the non-empty fragments
\* of [style modifier, tone fragment, raw prompt] joined by ". " in that order.
C13_AsStated ==
    call.fn = "handleGenerate"
    => call.config.prompt =
           Sep(Sep(StyleFragment(call.selectedStyleId), ToneFragment(call.brandTone)),
               call.prompt)

\* C13, amended: the prompt sent to generateImage is the fragments of [style
\* modifier, tone fragment, raw prompt] that are not blank (empty or
\* whitespace only), each as it is, joined by ". " in that order; the style
\* modifier is present only for an id of the catalog other than "none", the
\* tone fragment only for a tone other than default.
C13_Composition ==
    call.fn = "handleGenerate"
    => /\ call.config.prompt =
              Sep(Sep(StyleFragment(call.selectedStyleId),
                      ToneFragment(call.brandTone)),
                  NonBlank(call.prompt))
       /\ \A tone \in BrandTones \ {"default"} : ~Blank(toneModifiers(tone))
       /\ \A i \in DOMAIN STYLES : ~Blank(STYLES[i].promptModifier)

\* a style of the catalog, a tone and a padded prompt: three fragments
C13_Witness ==
    /\ call.fn = "handleGenerate"
    /\ call.selectedStyleId = "cinematic"
    /\ call.brandTone = "luxury"
    /\ call.prompt = <<" ", "cat">>
    /\ call.config.prompt =
           STYLES[2].promptModifier \o <<".", " ">> \o toneModifiers("luxury")
               \o <<".", " ", " ", "cat">>

\* the style "none" and a style outside the catalog contribute nothing
C13_WitnessNoStyle ==
    /\ call.fn = "handleGenerate"
    /\ call.selectedStyleId \in {"none", "sketch"}
    /\ call.brandTone = "default"
    /\ call.config.prompt = <<"cat">>

-----------------------------------------------------------------------------
\* C14: the composed prompt never starts with, ends with or contains a doubled
\* ". " separator introduced by an absent fragment: every separator in it
\* stands between two fragments that are not blank and is not followed by
\* another separator, for every combination of present and absent style
\* modifier, tone fragment and user prompt, a whitespace-only prompt sent with
\* a reference image included.
C14_NoStraySeparator ==
    call.fn = "handleGenerate"
    => LET cp == call.config.prompt
       IN \A k \in 1..(Len(cp) - 1) :
              (cp[k] = "." /\ cp[k + 1] = " ")
              => /\ ~Blank(SubSeq(cp, 1, k - 1))
                 /\ ~Blank(SubSeq(cp, k + 2, Len(cp)))
                 /\ ~(k + 3 <= Len(cp) /\ cp[k + 2] = "." /\ cp[k + 3] = " ")

\* a whitespace-only prompt sent with a reference image, a style and a tone:
\* one separator only, between the two fragments that are present
C14_Witness ==
    /\ call.fn = "handleGenerate"
    /\ call.prompt = <<" ">>
    /\ call.referenceImage # <<>>
    /\ call.selectedStyleId = "anime"
    /\ call.brandTone = "playful"
    /\ call.config.prompt =
           STYLES[6].promptModifier \o <<".", " ">> \o toneModifiers("playful")

\* a whitespace-only prompt sent with a reference image and nothing else:
\* the composed prompt is empty
C14_WitnessEmpty ==
    /\ call.fn = "handleGenerate"
    /\ call.prompt = <<" ">>
    /\ call.selectedStyleId = "none"
    /\ call.brandTone = "default"
    /\ call.config.prompt = <<>>

-----------------------------------------------------------------------------
\* the request of the i-th suspended handleGenerate; in SpecRatio the negative
\* prompt, the style, the tone and the reference image never change, so the
\* request sent is the one built from them and from the closure's prompt and
\* aspect ratio
RequestInFlight(i) ==
    generateImage(BuildConfig(pendingGen[i].prompt, negativePrompt,
                              pendingGen[i].aspectRatio, selectedStyleId,
                              brandTone, referenceImage), Throws).request

\* the text of a request carries the mandatory keywords of the ratio r
CarriesKeywordsOf(request, r) ==
    LET text == request.parts[Len(request.parts)].text
    IN \E k \in DOMAIN text : text[k] = RatioKeywords(r)

\* C15, as stated: in every image-generation request whose prompt text was
\* produced by an enhancement, the ratio whose mandatory keywords the
\* enhancement embedded equals the structural aspectRatio of the request.
C15_RatioAgreement ==
    \A i \in DOMAIN pendingGen : \A r \in AspectRatios :
        CarriesKeywordsOf(RequestInFlight(i), r)
        => RequestInFlight(i).aspectRatio = r

\* C15: a request in flight whose text carries the keywords of 16:9 and whose
\* structural aspect ratio is 1:1.
C15_Witness ==
    \E i \in DOMAIN pendingGen :
        /\ CarriesKeywordsOf(RequestInFlight(i), "16:9")
        /\ RequestInFlight(i).aspectRatio = "1:1"

-----------------------------------------------------------------------------
\* a step in which handleEnhancePrompt or handleSurpriseMe starts its call
TextOperationStarts ==
    /\ Len(pendingText') > Len(pendingText)
    /\ (ClickRefine \/ ClickSurpriseMe)

\* C16: a prompt enhancement or suggestion, from its start to its completion,
\* successful or failed, leaves appState, history and currentImage as they
\* are: neither its start nor its completion changes any of them.
C16_TextOperationFrame ==
    [][(TextOperationStarts \/ TextOperationResolves)
       => UNCHANGED <<appState, history, currentImage>>]_vars

\* a suggestion whose call threw has completed, with an image in the history
\* and shown and the state a finished generation left
C16_Witness ==
    /\ history # <<>>
    /\ currentImage = history[1]
    /\ appState = "IDLE"
    /\ prompt = CyberpunkDetective
    /\ pendingText = <<>>
    /\ ~isTextLoading

\* an enhancement has completed while a generation is in flight
C16_WitnessWhileGenerating ==
    /\ pendingGen # <<>>
    /\ appState = "GENERATING"
    /\ prompt = <<"dog">>
    /\ pendingText = <<>>

-----------------------------------------------------------------------------
\* a data URL of an image: "data:image/", a type of at least one character,
\* ";base64," and the payload
HasImageHeader(s) ==
    /\ s # <<>>
    /\ s[1] = "data:image/"
    /\ \E k \in 3..Len(s) : s[k] = ";base64,"

\* s without its "data:image/<type>;base64," header, if it has one
WithoutImageHeader(s) ==
    IF HasImageHeader(s)
    THEN LET k == CHOOSE k \in 3..Len(s) :
                      s[k] = ";base64," /\ \A j \in 3..(k - 1) : s[j] # ";base64,"
         IN SubSeq(s, k + 1, Len(s))
    ELSE s

\* C17, as stated: with a reference image the parts of the request are exactly
\* the inline image part and then the text part, the inline payload being the
\* reference without its "data:image/<type>;base64," header for every type
\* (svg+xml included) or as it is when it has no header, and the mime type
\* image/png; without a reference image the request has the text part only.
\* The structural aspectRatio of the request is config.aspectRatio.
C17_RequestAssembly ==
    call.fn = "generateImage"
    => LET ref == call.config.referenceImage
           parts == call.request.parts
       IN /\ call.request.aspectRatio = call.config.aspectRatio
          /\ IF ref = <<>>
             THEN Len(parts) = 1 /\ DOMAIN parts[1] = {"text"}
             ELSE /\ Len(parts) = 2
                  /\ parts[1] = [inlineData |-> [data |-> WithoutImageHeader(ref),
                                                  mimeType |-> "image/png"]]
                  /\ DOMAIN parts[2] = {"text"}

\* C17: the data URL of an SVG file is forwarded with its header
C17_Witness ==
    /\ call.fn = "generateImage"
    /\ call.config.referenceImage =
           <<"data:image/", "s", "v", "g", "+", "x", "m", "l", ";base64,", "PHN2Z">>
    /\ call.request.parts[1].inlineData.data = call.config.referenceImage

-----------------------------------------------------------------------------
\* the ids of the entries of the history are pairwise distinct
DistinctIds ==
    \A i, j \in DOMAIN history : history[i].id = history[j].id => i = j

\* the timestamps do not increase from the front of the history to its back
NewestFirst ==
    \A i, j \in DOMAIN history :
        i < j => history[i].timestamp >= history[j].timestamp

\* C18: the history only grows, at its front: a successful generation adds
\* exactly one entry, no step removes, reorders or modifies an entry (the
\* history changes in no other step, and then the old history is the tail of
\* the new one), the ids are pairwise distinct and the entries are ordered
\* newest first, also when generations complete in another order than they
\* were requested.
C18_HistoryGrowsAtFront ==
    /\ [](DistinctIds /\ NewestFirst)
    /\ [][IF history' # history
          THEN /\ history' # <<>>
               /\ Tail(history') = history
               /\ GenerateSucceeds
          ELSE ~GenerateSucceeds]_vars

\* two generations have succeeded, the older one has been selected since
C18_Witness ==
    /\ Len(history) = 2
    /\ history[1].timestamp > history[2].timestamp
    /\ history[1].id # history[2].id
    /\ currentImage = history[2]

-----------------------------------------------------------------------------
\* C19: isTextLoading is true exactly when an enhancement or a suggestion is
\* in flight, and at most one of them is in flight at any time, so that the
\* completion of one never clears the flag while another is running.
C19_TextLoadingFlag ==
    /\ isTextLoading <=> pendingText # <<>>
    /\ Len(pendingText) <= 1

\* an enhancement has completed and a suggestion is in flight
C19_Witness ==
    /\ prompt = <<"dog">>
    /\ isTextLoading
    /\ Len(pendingText) = 1
    /\ pendingText[1].op = "suggest"

-----------------------------------------------------------------------------
\* C20: currentImage is null or an entry of the history, never an image that
\* is not in the history; it is null exactly until the first successful
\* generation, and it changes only when a generation succeeds or when an
\* entry of the history is selected.
C20_CurrentImageInHistory ==
    /\ [](/\ currentImage = NoImage <=> history = <<>>
           /\ currentImage # NoImage
                  => \E k \in DOMAIN history : history[k] = currentImage)
    /\ [][currentImage' # currentImage
            => \/ GenerateSucceeds
               \/ \E i \in DOMAIN history : SelectHistoryItem(i)]_vars

\* a generation has succeeded and another one has failed: the image of the
\* first is in the history and still shown
C20_Witness ==
    /\ Len(history) = 1
    /\ currentImage = history[1]
    /\ errorMessage = GenerationFailed
    /\ pendingGen = <<>>

-----------------------------------------------------------------------------
\* C21, as stated: if every external call eventually returns or fails, every
\* state with appState = GENERATING is eventually followed by a state with
\* appState different from GENERATING and no generation in flight, and every
\* state with isTextLoading true by one with isTextLoading false.
C21_NoStuckLoading ==
    /\ (appState = "GENERATING") ~> (appState # "GENERATING" /\ pendingGen = <<>>)
    /\ isTextLoading ~> ~isTextLoading

\* the part of C21 about the text operations
C21_TextLoadingEnds == isTextLoading ~> ~isTextLoading

\* the part of C21 about appState alone
C21_GeneratingEnds == (appState = "GENERATING") ~> (appState # "GENERATING")

\* C21: a second generation has been started while the first was in flight
C21_Witness ==
    /\ appState = "GENERATING"
    /\ Len(pendingGen) = 2

-----------------------------------------------------------------------------
\* the request handleGenerate sends for the form as it is
RequestOfForm ==
    generateImage(BuildConfig(prompt, negativePrompt, aspectRatio,
                              selectedStyleId, brandTone, referenceImage),
                  Throws).request

\* C22: each history entry records the inputs of its own request.  The
\* invocation suspended by a request keeps the raw prompt of the form (not
\* the composed one) and the structural aspect ratio of the request sent; no
\* other step changes what a suspended invocation keeps; and the entry a
\* successful generation adds has the prompt and the aspect ratio its own
\* invocation kept, whatever the form holds by then.
C22_EntryRecordsItsRequest ==
    [][/\ Len(pendingGen') > Len(pendingGen)
          => /\ pendingGen' = Append(pendingGen, pendingGen'[Len(pendingGen')])
             /\ pendingGen'[Len(pendingGen')].prompt = prompt
             /\ pendingGen'[Len(pendingGen')].aspectRatio = RequestOfForm.aspectRatio
       /\ Len(pendingGen') = Len(pendingGen) => pendingGen' = pendingGen
       /\ Len(pendingGen') < Len(pendingGen)
          => \E i \in DOMAIN pendingGen :
                 /\ pendingGen' = Remove(pendingGen, i)
                 /\ history' # history
                    => /\ history'[1].prompt = pendingGen[i].prompt
                       /\ history'[1].aspectRatio = pendingGen[i].aspectRatio]_vars

\* the entry of a request made with the prompt "cat", the style cinematic and
\* the ratio 16:9, after the user has changed the prompt and the ratio
C22_Witness ==
    /\ history # <<>>
    /\ history[1].prompt = <<"cat">>
    /\ history[1].aspectRatio = "16:9"
    /\ selectedStyleId = "cinematic"
    /\ prompt = <<"dog">>
    /\ aspectRatio = "1:1"

-----------------------------------------------------------------------------
\* a step in which a suspended handleEnhancePrompt resumes after a call that
\* failed or returned no text
EnhancementFails ==
    /\ Len(pendingText') < Len(pendingText)
    /\ \E i \in DOMAIN pendingText, outcome \in TextOutcomes :
           NoUsableText(outcome) /\ EnhanceResolve(i, outcome)

\* C23, as stated: a failed enhancement never changes the prompt the user
\* sees: the prompt right after the enhance action completes is the prompt
\* right before it completes, also when the user edited the prompt while the
\* call was in flight.
C23_FailedEnhancementKeepsPrompt ==
    [][EnhancementFails => prompt' = prompt]_vars

\* C23: the user has replaced the prompt by another one while the
\* enhancement of "cat" is in flight
C23_Witness ==
    /\ Len(pendingText) = 1
    /\ pendingText[1].op = "enhance"
    /\ pendingText[1].prompt = <<"cat">>
    /\ prompt = <<" ">>

====
